---- MODULE Spec2Model ----
(***************************************************************************)
(* Model of scooby/versions.py: the Versions class (package registry,      *)
(* version resolution, html table rendering).                              *)
(*                                                                         *)
(* Python values are encoded as strings so that every value of the model   *)
(* is comparable: a module object is the identifier of that object         *)
(* ("m_numpy"), the mock.Mock stand-in is "Mock", an element of a list is  *)
(* a pair <<type, value>>.                                                 *)
(***************************************************************************)
EXTENDS Naturals, Sequences, FiniteSets

VARIABLES
    packages,            \* self._packages: insertion-ordered dict, a sequence of <<name, module>>
    sys_modules,         \* sys.modules restricted to Names: name -> module object, "Mock" or Absent
    VERSION_ATTRIBUTES,  \* scooby.knowledge.VERSION_ATTRIBUTES: name -> attribute name
    ncol,                \* self.ncol
    lastCall,            \* the call that produced this state (its name and argument)
    raised,              \* the exception the call ended with, or "none"
    result,              \* the value the call returned ("" when it returns None or raised)
    log,                 \* the logging.warning records emitted during the call
    html,                \* the rows written by the last _repr_html_ call
    firstSeen,           \* history: names in the order of their first successful addition
    latest               \* history: name -> the module object of its latest successful addition

vars == <<packages, sys_modules, VERSION_ATTRIBUTES, ncol, lastCall, raised,
          result, log, html, firstSeen, latest>>

---------------------------------------------------------------------------
(* Bounds of the model *)

\* longest list handed to one add_packages call (and as `additional`)
MaxLen == 2

\* largest number of table columns
MaxCol == 5

\* default of the ncol parameter
DefaultNcol == 4

---------------------------------------------------------------------------
(* The host: component names, module objects, what import can locate *)

Absent == "<absent>"

Mock == "Mock"

\* names import_module can locate, and the module object it loads for each
Installed == {"numpy", "scipy", "IPython", "matplotlib", "vtk"}

\* a name no import can locate
Names == Installed \cup {"ghost"}

InstalledModule(name) == "m_" \o name

\* module objects (instances of ModuleType). "m_numpy2" and "m_ghost" are
\* made with types.ModuleType and hold no version attribute: the first is a
\* second module object whose __name__ is "numpy", the __name__ of the
\* second is one no import can locate.
Modules == {InstalledModule(n) : n \in Installed} \cup {"m_numpy2", "m_ghost"}

\* module.__name__
ModuleName(m) ==
    CASE m = "m_numpy2" -> "numpy"
      [] m = "m_ghost" -> "ghost"
      [] OTHER -> CHOOSE n \in Installed : InstalledModule(n) = m

\* the attributes a module object exposes that version lookup may read
ModuleAttrs(m) ==
    CASE m = "m_numpy" -> [a \in {"__version__"} |-> "1.24.0"]
      [] m = "m_scipy" -> [a \in {"__version__"} |-> "1.10.1"]
      [] m = "m_IPython" -> [a \in {"__version__"} |-> "8.12.0"]
      [] m = "m_matplotlib" -> [a \in {"__version__"} |-> "3.7.1"]
      [] m = "m_vtk" -> [a \in {"VTK_VERSION", "__version__"} |->
                            IF a = "VTK_VERSION" THEN "9.2" ELSE "9.2.6"]
      [] OTHER -> << >>

\* attribute names a VERSION_ATTRIBUTES entry may hold
OverrideAttrs == {"VTK_VERSION", "__build__"}

\* mock's _is_magic(name): a double-underscore name
IsMagic(attr) == attr \in {"__version__", "__build__"}

isinstance_ModuleType(v) == v \in Modules

isinstance_Mock(v) == v = Mock

---------------------------------------------------------------------------
(* dict operations on self._packages *)

keys(pk) == [i \in 1..Len(pk) |-> pk[i][1]]

HasKey(pk, name) == \E i \in 1..Len(pk) : pk[i][1] = name

GetItem(pk, name) == pk[CHOOSE i \in 1..Len(pk) : pk[i][1] = name][2]

\* d[name] = module where the dict appends a second entry for a key it holds
DictSetDuplicating(pk, name, module) == Append(pk, <<name, module>>)

\* d[name] = module where an overwritten key moves to the end
DictSetMovingToEnd(pk, name, module) ==
    Append(SelectSeq(pk, LAMBDA e : e[1] # name), <<name, module>>)

\* d[name] = module: a held key keeps its position and gets the new value
DictSet(pk, name, module) ==
    IF HasKey(pk, name)
    THEN [i \in 1..Len(pk) |-> IF pk[i][1] = name THEN <<name, module>> ELSE pk[i]]
    ELSE Append(pk, <<name, module>>)

---------------------------------------------------------------------------
(* importlib.import_module and Versions._safe_import_by_name *)

\* importlib.import_module(name): an entry of sys.modules is returned as it
\* is (the Mock of an earlier failure included); otherwise the module is
\* located and loaded, or ImportError is raised.
import_module(sm, name) ==
    IF sm[name] # Absent
    THEN [ok |-> TRUE, module |-> sm[name], sys_modules |-> sm]
    ELSE IF name \in Installed
    THEN [ok |-> TRUE, module |-> InstalledModule(name),
          sys_modules |-> [sm EXCEPT ![name] = InstalledModule(name)]]
    ELSE [ok |-> FALSE, module |-> Absent, sys_modules |-> sm]

ImportWarning(name) == <<"Could not import module", name>>

VersionWarning(name) == <<"Varsion attribute is unknown", name>>

_safe_import_by_name(sm, lg, name) ==
    LET r == import_module(sm, name) IN
    IF r.ok
    THEN [module |-> r.module, sys_modules |-> r.sys_modules, log |-> lg]
    ELSE [module |-> Mock,
          sys_modules |-> [sm EXCEPT ![name] = Mock],
          log |-> Append(lg, ImportWarning(name))]

---------------------------------------------------------------------------
(* Versions._add_package, _add_package_by_name, add_packages *)

NoName == "<None>"

_add_package(pk, module, name) ==
    IF name = NoName /\ ~isinstance_ModuleType(module)
    THEN [packages |-> pk, raised |-> "AttributeError"]   \* Mock().__name__
    ELSE IF ~isinstance_ModuleType(module)
    THEN [packages |-> pk, raised |-> "TypeError"]
    ELSE [packages |-> DictSet(pk, IF name = NoName THEN ModuleName(module) ELSE name, module),
          raised |-> "none"]

\* _add_package_by_name without the isinstance(module, mock.Mock) test
AddByNameStoringStub(pk, sm, lg, name) ==
    LET imp == _safe_import_by_name(sm, lg, name) IN
    [packages |-> DictSet(pk, name, imp.module), sys_modules |-> imp.sys_modules,
     log |-> imp.log, raised |-> "none"]

_add_package_by_name(pk, sm, lg, name) ==
    LET imp == _safe_import_by_name(sm, lg, name) IN
    IF ~isinstance_Mock(imp.module)
    THEN LET a == _add_package(pk, imp.module, name) IN
         [packages |-> a.packages, sys_modules |-> imp.sys_modules,
          log |-> imp.log, raised |-> a.raised]
    ELSE [packages |-> pk, sys_modules |-> imp.sys_modules,
          log |-> imp.log, raised |-> "none"]

\* An element of a list: <<type, value>>
StrElem(name) == <<"str", name>>
ModElem(m) == <<"module", m>>
NoneElem == <<"None", "">>
IntElem == <<"int", "42">>
MockElem == <<"Mock", Mock>>

\* the for loop of add_packages over the elements not yet processed
RECURSIVE add_loop(_, _, _, _)
add_loop(pk, sm, lg, rest) ==
    IF rest = << >>
    THEN [packages |-> pk, sys_modules |-> sm, log |-> lg, raised |-> "none"]
    ELSE LET pckg == Head(rest) IN
         IF pckg[1] = "str"
         THEN LET r == _add_package_by_name(pk, sm, lg, pckg[2]) IN
              IF r.raised # "none" THEN r
              ELSE add_loop(r.packages, r.sys_modules, r.log, Tail(rest))
         ELSE IF pckg[1] = "module" /\ isinstance_ModuleType(pckg[2])
         THEN LET a == _add_package(pk, pckg[2], NoName) IN
              IF a.raised # "none"
              THEN [packages |-> a.packages, sys_modules |-> sm, log |-> lg,
                    raised |-> a.raised]
              ELSE add_loop(a.packages, sm, lg, Tail(rest))
         ELSE IF pckg = NoneElem
         THEN add_loop(pk, sm, lg, Tail(rest))
         ELSE [packages |-> pk, sys_modules |-> sm, log |-> lg, raised |-> "TypeError"]

\* An argument of add_packages: [kind, list, val]; kind "list" carries the
\* elements in list, any other kind is a value that is no list or tuple.
ListArg(l) == [kind |-> "list", list |-> l, val |-> ""]
ScalarArg(e) == [kind |-> e[1], list |-> << >>, val |-> e[2]]

\* add_packages that undoes its work when an element is rejected
AddPackagesAllOrNothing(pk, sm, lg, arg) ==
    IF arg.kind # "list"
    THEN [packages |-> pk, sys_modules |-> sm, log |-> lg, raised |-> "TypeError"]
    ELSE LET r == add_loop(pk, sm, lg, arg.list) IN
         IF r.raised # "none" THEN [r EXCEPT !.packages = pk] ELSE r

\* add_packages that skips an element of a wrong type as it skips None
RECURSIVE DropWrongTypes(_)
DropWrongTypes(l) ==
    IF l = << >> THEN << >>
    ELSE IF Head(l)[1] \in {"str", "module", "None"}
    THEN <<Head(l)>> \o DropWrongTypes(Tail(l))
    ELSE DropWrongTypes(Tail(l))

AddPackagesSkippingWrongTypes(pk, sm, lg, arg) ==
    IF arg.kind # "list"
    THEN [packages |-> pk, sys_modules |-> sm, log |-> lg, raised |-> "TypeError"]
    ELSE add_loop(pk, sm, lg, DropWrongTypes(arg.list))

AddPackages(pk, sm, lg, arg) ==
    IF arg.kind # "list"
    THEN [packages |-> pk, sys_modules |-> sm, log |-> lg, raised |-> "TypeError"]
    ELSE add_loop(pk, sm, lg, arg.list)

---------------------------------------------------------------------------
(* Versions.get_version *)

\* what getattr(Mock(), attr) returns for a name that is not magic: a new
\* child Mock object, which is no string
MockChild == "<Mock attribute>"

\* getattr(module, attr): the value, or AttributeError (ok = FALSE). A Mock
\* makes up every attribute except the magic (double-underscore) ones.
getattr(module, attr) ==
    IF isinstance_Mock(module)
    THEN IF IsMagic(attr) THEN [ok |-> FALSE, value |-> ""]
         ELSE [ok |-> TRUE, value |-> MockChild]
    ELSE IF attr \in DOMAIN ModuleAttrs(module)
    THEN [ok |-> TRUE, value |-> ModuleAttrs(module)[attr]]
    ELSE [ok |-> FALSE, value |-> ""]

\* version lookup that reads the conventional attribute before the override
VersionOfConventionalFirst(table, lg, name, module) ==
    LET ovr == IF name \in DOMAIN table
               THEN getattr(module, table[name])
               ELSE [ok |-> FALSE, value |-> ""]
        std == getattr(module, "__version__")
    IN  IF std.ok THEN [result |-> std.value, log |-> lg]
        ELSE IF ovr.ok THEN [result |-> ovr.value, log |-> lg]
        ELSE [result |-> "unknown", log |-> Append(lg, VersionWarning(name))]

\* the second half of get_version: the version of `module` known as `name`
version_of(table, lg, name, module) ==
    LET ovr == IF name \in DOMAIN table
               THEN getattr(module, table[name])
               ELSE [ok |-> FALSE, value |-> ""]          \* KeyError
        std == getattr(module, "__version__")
    IN  IF ovr.ok THEN [result |-> ovr.value, log |-> lg]
        ELSE IF std.ok THEN [result |-> std.value, log |-> lg]
        ELSE [result |-> "unknown", log |-> Append(lg, VersionWarning(name))]

\* get_version that keeps the module it imported for an unregistered name
GetVersionStoringImport(pk, sm, lg, table, pckg) ==
    IF pckg[1] = "str"
    THEN IF HasKey(pk, pckg[2])
         THEN LET v == version_of(table, lg, pckg[2], GetItem(pk, pckg[2])) IN
              [packages |-> pk, sys_modules |-> sm,
               log |-> v.log, raised |-> "none", result |-> v.result]
         ELSE LET imp == _safe_import_by_name(sm, lg, pckg[2])
                  v == version_of(table, imp.log, pckg[2], imp.module)
              IN  [packages |-> IF isinstance_Mock(imp.module) THEN pk
                                ELSE DictSet(pk, pckg[2], imp.module),
                   sys_modules |-> imp.sys_modules,
                   log |-> v.log, raised |-> "none", result |-> v.result]
    ELSE IF pckg[1] = "module" /\ isinstance_ModuleType(pckg[2])
    THEN LET v == version_of(table, lg, ModuleName(pckg[2]), pckg[2]) IN
         [packages |-> pk, sys_modules |-> sm,
          log |-> v.log, raised |-> "none", result |-> v.result]
    ELSE [packages |-> pk, sys_modules |-> sm, log |-> lg, raised |-> "TypeError",
          result |-> ""]

get_version(pk, sm, lg, table, pckg) ==
    IF pckg[1] = "str"
    THEN IF HasKey(pk, pckg[2])
         THEN LET v == version_of(table, lg, pckg[2], GetItem(pk, pckg[2])) IN
              [packages |-> pk, sys_modules |-> sm,
               log |-> v.log, raised |-> "none", result |-> v.result]
         ELSE LET imp == _safe_import_by_name(sm, lg, pckg[2])          \* KeyError
                  v == version_of(table, imp.log, pckg[2], imp.module)
              IN  [packages |-> pk, sys_modules |-> imp.sys_modules,
                   log |-> v.log, raised |-> "none", result |-> v.result]
    ELSE IF pckg[1] = "module" /\ isinstance_ModuleType(pckg[2])
    THEN LET v == version_of(table, lg, ModuleName(pckg[2]), pckg[2]) IN
         [packages |-> pk, sys_modules |-> sm,
          log |-> v.log, raised |-> "none", result |-> v.result]
    ELSE [packages |-> pk, sys_modules |-> sm, log |-> lg, raised |-> "TypeError",
          result |-> ""]

---------------------------------------------------------------------------
(* Versions._repr_html_: the html text as the sequence of its parts,       *)
(* <<"tr">>, <<"/tr">>, a cell pair <<"pair", version, name>>, an empty    *)
(* cell pair <<"empty">>, a spanning cell <<"colspan", text>>; the style   *)
(* attributes of the cells are left out.                                   *)

TrOpen == <<"tr", "", "">>
TrClose == <<"/tr", "", "">>
EmptyPair == <<"empty", "", "">>
Pair(version, name) == <<"pair", version, name>>

\* platform.system() and multiprocessing.cpu_count() on the modelled host
platform == "Linux"
cpu_count == "8"

\* mkl is not installed on the modelled host
mklinfo == FALSE

colspan(h, txt) == h \o <<TrOpen, <<"colspan", txt, "">>, TrClose>>

cols(h, version, name, c, i) ==
    LET h1 == IF i > 0 /\ i % c = 0 THEN h \o <<TrClose, TrOpen>> ELSE h IN
    [html |-> Append(h1, Pair(version, name)), i |-> i + 1]

\* the loop over self._packages.keys(), from entry k on
RECURSIVE cols_loop(_, _, _, _, _, _, _)
cols_loop(h, i, pk, sm, lg, table, k) ==
    IF k > Len(pk)
    THEN [html |-> h, i |-> i, sys_modules |-> sm, log |-> lg]
    ELSE LET name == pk[k][1]
             v == get_version(pk, sm, lg, table, StrElem(name))
             r == cols(h, v.result, name, ncol, i)
         IN  cols_loop(r.html, r.i, pk, v.sys_modules, v.log, table, k + 1)

\* a fill loop that pads by c - i % c pairs, a whole row when the row is full
RECURSIVE FillRowAlways(_, _, _)
FillRowAlways(h, c, i) ==
    LET padded == Append(h, EmptyPair) IN
    IF (i + 1) % c # 0 THEN FillRowAlways(padded, c, i + 1) ELSE padded

\* while i % ncol != 0: two empty cells, i += 1
RECURSIVE fill_row(_, _, _)
fill_row(h, c, i) ==
    IF i % c # 0 THEN fill_row(Append(h, EmptyPair), c, i + 1) ELSE h

_repr_html_(pk, sm, lg, table) ==
    LET h0 == colspan(<< >>, "date")
        os == cols(Append(h0, TrOpen), platform, "OS", ncol, 0)
        cpu == cols(os.html, cpu_count, "CPU(s)", ncol, os.i)
        body == cols_loop(cpu.html, cpu.i, pk, sm, lg, table, 1)
        filled == Append(fill_row(body.html, ncol, body.i), TrClose)
        sysv == colspan(filled, "sys.version")
    IN  [html |-> IF mklinfo THEN colspan(sysv, "mklinfo") ELSE sysv,
         sys_modules |-> body.sys_modules, log |-> body.log]

---------------------------------------------------------------------------
(* History of the successful additions, kept beside the program's state    *)

WrongType(e) == e[1] \notin {"str", "module", "None"}

\* the elements of a list up to its first element of a wrong type
RECURSIVE ValidPrefix(_)
ValidPrefix(l) ==
    IF l = << >> \/ WrongType(Head(l)) THEN << >>
    ELSE <<Head(l)>> \o ValidPrefix(Tail(l))

HasWrongType(l) == \E k \in 1..Len(l) : WrongType(l[k])

\* an element that resolves: an importable name, or a module object
Resolves(e) == (e[1] = "str" /\ e[2] \in Installed) \/ e[1] = "module"

ResolvedName(e) == IF e[1] = "str" THEN e[2] ELSE ModuleName(e[2])

ResolvedModule(e) == IF e[1] = "str" THEN InstalledModule(e[2]) ELSE e[2]

RECURSIVE NoteFirstSeen(_, _)
NoteFirstSeen(fs, l) ==
    IF l = << >> THEN fs
    ELSE LET e == Head(l)
             seen == \E i \in 1..Len(fs) : fs[i] = ResolvedName(e)
         IN  NoteFirstSeen(IF Resolves(e) /\ ~seen THEN Append(fs, ResolvedName(e)) ELSE fs,
                           Tail(l))

RECURSIVE NoteLatest(_, _)
NoteLatest(lt, l) ==
    IF l = << >> THEN lt
    ELSE LET e == Head(l) IN
         NoteLatest(IF Resolves(e) THEN [lt EXCEPT ![ResolvedName(e)] = ResolvedModule(e)]
                    ELSE lt,
                    Tail(l))

---------------------------------------------------------------------------
(* Inputs *)

RECURSIVE SeqsOfLen(_, _)
SeqsOfLen(S, n) ==
    IF n = 0 THEN {<< >>}
    ELSE {Append(q, x) : q \in SeqsOfLen(S, n - 1), x \in S}

SeqsUpTo(S, n) == UNION {SeqsOfLen(S, k) : k \in 0..n}

\* elements of the lists handed to add_packages
Elems ==
    {StrElem("numpy"), StrElem("ghost"), ModElem("m_numpy2"), NoneElem, IntElem}

AddArgs ==
    {ListArg(l) : l \in SeqsUpTo(Elems, MaxLen)}
    \cup {ScalarArg(StrElem("numpy")), ScalarArg(ModElem("m_numpy2")), ScalarArg(IntElem)}

VersionArgs ==
    {StrElem("numpy"), StrElem("vtk"), StrElem("ghost"),
     ModElem("m_numpy"), ModElem("m_numpy2"), ModElem("m_vtk"), ModElem("m_ghost"),
     NoneElem, IntElem, MockElem}

\* contents of VERSION_ATTRIBUTES: no entry, or an entry for each of "vtk"
\* and "ghost" that names an ordinary attribute or a double-underscore one
Tables == {<< >>} \cup {[n \in {"vtk", "ghost"} |-> a] : a \in OverrideAttrs}

---------------------------------------------------------------------------
(* Versions.__init__ *)

safety(x) == IF Len(x) < 1 THEN << >> ELSE x

NoModules == [n \in Names |-> Absent]

\* sys.modules once scooby.versions is imported: its own imports (numpy,
\* scipy, and IPython and matplotlib when installed) are loaded
LoadedAtImport == {"numpy", "scipy", "IPython", "matplotlib"}

InitialModules ==
    [n \in Names |-> IF n \in LoadedAtImport THEN InstalledModule(n) ELSE Absent]

\* the three add_packages calls of __init__
Construct(core, optional, additional) ==
    LET c == AddPackages(<< >>, InitialModules, << >>, ListArg(safety(core)))
        o == AddPackages(c.packages, c.sys_modules, c.log, ListArg(safety(optional)))
    IN  AddPackages(o.packages, o.sys_modules, o.log, ListArg(safety(additional)))

InitWith(cores, optionals, additionals, columns) ==
    \E core \in cores, optional \in optionals, additional \in additionals,
       c \in columns, table \in Tables :
        LET r == Construct(core, optional, additional)
            all == core \o optional \o additional
        IN  /\ r.raised = "none"
            /\ packages = r.packages
            /\ sys_modules = r.sys_modules
            /\ VERSION_ATTRIBUTES = table
            /\ ncol = c
            /\ lastCall = [op |-> "__init__", arg |-> ListArg(all)]
            /\ raised = "none"
            /\ result = ""
            /\ log = r.log
            /\ html = << >>
            /\ firstSeen = NoteFirstSeen(<< >>, all)
            /\ latest = NoteLatest(NoModules, all)

Init ==
    InitWith({<< >>, <<StrElem("numpy")>>}, {<< >>, <<StrElem("vtk")>>},
             {<< >>, <<StrElem("ghost")>>, <<ModElem("m_numpy2")>>}, {DefaultNcol})

---------------------------------------------------------------------------
(* The calls *)

Do_add_packages ==
    \E arg \in AddArgs :
        LET r == AddPackages(packages, sys_modules, << >>, arg)
            done == ValidPrefix(arg.list)
        IN  /\ packages' = r.packages
            /\ sys_modules' = r.sys_modules
            /\ log' = r.log
            /\ raised' = r.raised
            /\ result' = ""
            /\ lastCall' = [op |-> "add_packages", arg |-> arg]
            /\ firstSeen' = NoteFirstSeen(firstSeen, done)
            /\ latest' = NoteLatest(latest, done)
            /\ UNCHANGED <<VERSION_ATTRIBUTES, ncol, html>>

Do_get_version ==
    \E pckg \in VersionArgs :
        LET r == get_version(packages, sys_modules, << >>, VERSION_ATTRIBUTES, pckg) IN
            /\ packages' = r.packages
            /\ sys_modules' = r.sys_modules
            /\ log' = r.log
            /\ raised' = r.raised
            /\ result' = r.result
            /\ lastCall' = [op |-> "get_version", arg |-> ScalarArg(pckg)]
            /\ UNCHANGED <<VERSION_ATTRIBUTES, ncol, html, firstSeen, latest>>

Do_repr_html ==
    LET r == _repr_html_(packages, sys_modules, << >>, VERSION_ATTRIBUTES) IN
        /\ html' = r.html
        /\ sys_modules' = r.sys_modules
        /\ log' = r.log
        /\ raised' = "none"
        /\ result' = "html"
        /\ lastCall' = [op |-> "_repr_html_", arg |-> ListArg(<< >>)]
        /\ UNCHANGED <<packages, VERSION_ATTRIBUTES, ncol, firstSeen, latest>>

Next == Do_add_packages \/ Do_get_version

Spec == Init /\ [][Next]_vars

\* construction from the default lists and their sub-lists, then rendering
InitHtml ==
    InitWith(SeqsUpTo({StrElem("numpy"), StrElem("scipy")}, 2),
             SeqsUpTo({StrElem("IPython"), StrElem("matplotlib")}, 2),
             SeqsUpTo({StrElem("vtk"), StrElem("ghost"), ModElem("m_numpy2")}, MaxLen),
             1..MaxCol)

NextHtml == Do_repr_html

SpecHtml == InitHtml /\ [][NextHtml]_vars

---------------------------------------------------------------------------
(* Properties *)

Range(q) == {q[i] : i \in 1..Len(q)}

IsAdd == lastCall.op = "add_packages"

IsAddOfList == IsAdd /\ lastCall.arg.kind = "list"

IsGetVersionOf(kind) == lastCall.op = "get_version" /\ lastCall.arg.kind = kind

\* C1: names() (the keys of the registry, in order) is exactly the names
\* that resolved so far, each at the place of its first successful addition,
\* and every name holds the module object of its latest successful addition
\* (an overwrite replaces the handle and moves nothing).
C1_NamesInFirstAdditionOrder ==
    /\ keys(packages) = firstSeen
    /\ \A i \in 1..Len(packages) : packages[i][2] = latest[packages[i][1]]

\* an add call has overwritten the handle of "numpy", which stays first
C1_Witness ==
    /\ IsAddOfList
    /\ ModElem("m_numpy2") \in Range(lastCall.arg.list)
    /\ packages = <<<<"numpy", "m_numpy2">>, <<"vtk", "m_vtk">>>>

\* C2: an add call that processes a name import cannot locate does not raise
\* for it, leaves the name out of names(), goes on with the elements after
\* it, and emits a warning that names it during that call.
C2_UnlocatableNameWarnsEveryTime ==
    IsAddOfList =>
        LET done == ValidPrefix(lastCall.arg.list) IN
        \A k \in 1..Len(done) :
            (done[k][1] = "str" /\ done[k][2] \notin Installed) =>
                /\ ImportWarning(done[k][2]) \in Range(log)
                /\ ~HasKey(packages, done[k][2])
                /\ (~HasWrongType(lastCall.arg.list) => raised = "none")
                /\ \A j \in (k + 1)..Len(done) :
                       Resolves(done[j]) => HasKey(packages, ResolvedName(done[j]))

\* C3: for a genuine handle, passed directly or registered under the name
\* given, get_version returns the override attribute's value when the table
\* has an entry for the name and the handle exposes it, otherwise the value
\* of __version__ when the handle exposes it, otherwise "unknown" with a
\* warning that names the identifier.
C3_VersionLookupChain ==
    \A m \in Modules, name \in Names :
        ( \/ (IsGetVersionOf("module") /\ lastCall.arg.val = m /\ name = ModuleName(m))
          \/ (IsGetVersionOf("str") /\ lastCall.arg.val = name
                /\ HasKey(packages, name) /\ GetItem(packages, name) = m) )
        => /\ raised = "none"
           /\ IF name \in DOMAIN VERSION_ATTRIBUTES
                 /\ VERSION_ATTRIBUTES[name] \in DOMAIN ModuleAttrs(m)
              THEN result = ModuleAttrs(m)[VERSION_ATTRIBUTES[name]]
              ELSE IF "__version__" \in DOMAIN ModuleAttrs(m)
              THEN result = ModuleAttrs(m)["__version__"]
              ELSE result = "unknown" /\ VersionWarning(name) \in Range(log)

\* the registered vtk exposes both attributes and the override is returned
C3_Witness ==
    /\ IsGetVersionOf("str") /\ lastCall.arg.val = "vtk"
    /\ HasKey(packages, "vtk")
    /\ "vtk" \in DOMAIN VERSION_ATTRIBUTES /\ VERSION_ATTRIBUTES["vtk"] = "VTK_VERSION"
    /\ result = "9.2"

\* C4: get_version of a name that is not registered and that import cannot
\* locate does not raise and returns "unknown", whatever VERSION_ATTRIBUTES
\* holds.
C4_UnlocatableNameIsUnknown ==
    \A name \in Names \ Installed :
        (IsGetVersionOf("str") /\ lastCall.arg.val = name /\ ~HasKey(packages, name))
        => raised = "none" /\ result = "unknown"

\* C5: an add call whose list holds an element that is no string, module or
\* None raises TypeError, and the registry holds no entry for that element.
C5_WrongTypeRaises ==
    IsAddOfList =>
        \A k \in 1..Len(lastCall.arg.list) :
            WrongType(lastCall.arg.list[k]) =>
                /\ raised = "TypeError"
                /\ \A i \in 1..Len(packages) :
                       /\ packages[i][1] # lastCall.arg.list[k][2]
                       /\ packages[i][2] # lastCall.arg.list[k][2]
                       /\ packages[i][1] \in Names
                       /\ packages[i][2] \in Modules

\* the list held 42 after a valid element, and the call raised
C5_Witness ==
    /\ IsAddOfList
    /\ lastCall.arg.list = <<StrElem("numpy"), IntElem>>
    /\ raised = "TypeError"
    /\ keys(packages) = <<"numpy">>

\* C6: a get_version call, whatever its argument, leaves the registry (the
\* mapping and its order) as it was.
C6_GetVersionKeepsRegistry ==
    [][lastCall'.op = "get_version" => packages' = packages]_vars

\* an unregistered importable name was resolved once and is still unregistered
C6_Witness ==
    /\ IsGetVersionOf("str") /\ lastCall.arg.val = "vtk"
    /\ ~HasKey(packages, "vtk")
    /\ sys_modules["vtk"] = "m_vtk"
    /\ result = "9.2.6"

\* the rows of cell pairs of the table: the text between <tr> and </tr>,
\* the rows that hold a spanning cell left out
RECURSIVE ParseRows(_, _, _)
ParseRows(toks, cur, acc) ==
    IF toks = << >> THEN acc
    ELSE LET t == Head(toks) IN
         IF t = TrOpen THEN ParseRows(Tail(toks), << >>, acc)
         ELSE IF t = TrClose THEN ParseRows(Tail(toks), << >>, Append(acc, cur))
         ELSE ParseRows(Tail(toks), Append(cur, t), acc)

DataRows(h) ==
    SelectSeq(ParseRows(h, << >>, << >>), LAMBDA r : r = << >> \/ r[1][1] # "colspan")

Empties(row) == Cardinality({j \in 1..Len(row) : row[j] = EmptyPair})

\* C7: the n+2 pairs (OS, CPU(s), then the components in registration order)
\* fill ceil((n+2)/c) rows of exactly c pairs each; only the last row holds
\* empty pairs, (c - (n+2) mod c) mod c of them, after its filled pairs.
C7_TableRows ==
    lastCall.op = "_repr_html_" =>
        LET rows == DataRows(html)
            total == Len(packages) + 2
            labels == <<"OS", "CPU(s)">> \o keys(packages)
        IN  /\ Len(rows) = (total + ncol - 1) \div ncol
            /\ \A r \in 1..Len(rows) : Len(rows[r]) = ncol
            /\ \A r \in 1..(Len(rows) - 1) : Empties(rows[r]) = 0
            /\ Empties(rows[Len(rows)]) = (ncol - (total % ncol)) % ncol
            /\ \A r \in 1..Len(rows), j \in 1..ncol :
                   LET at == (r - 1) * ncol + j IN
                   IF at <= total
                   THEN rows[r][j][1] = "pair" /\ rows[r][j][3] = labels[at]
                   ELSE rows[r][j] = EmptyPair

\* four columns and five components: two rows, the second with one empty pair
C7_Witness ==
    /\ lastCall.op = "_repr_html_"
    /\ ncol = 4 /\ Len(packages) = 5
    /\ Len(DataRows(html)) = 2
    /\ Empties(DataRows(html)[2]) = 1

\* C8: after add of the single importable name n, the same add again leaves
\* the registry as it is: one entry for n, at the same place, and
\* get_version of n returns the same value.
C8_AddTwiceIsAddOnce ==
    \A n \in Installed :
        (IsAdd /\ lastCall.arg = ListArg(<<StrElem(n)>>)) =>
            LET again == AddPackages(packages, sys_modules, << >>, lastCall.arg)
                once == get_version(packages, sys_modules, << >>,
                                    VERSION_ATTRIBUTES, StrElem(n))
                twice == get_version(again.packages, again.sys_modules, << >>,
                                     VERSION_ATTRIBUTES, StrElem(n))
            IN  /\ raised = "none" /\ again.raised = "none"
                /\ Cardinality({i \in 1..Len(packages) : packages[i][1] = n}) = 1
                /\ again.packages = packages
                /\ twice.result = once.result

\* "numpy" was added by name to a registry that holds another name after it
C8_Witness ==
    /\ IsAdd /\ lastCall.arg = ListArg(<<StrElem("numpy")>>)
    /\ packages = <<<<"numpy", "m_numpy">>, <<"vtk", "m_vtk">>>>

\* C9: every handle in the registry is a module object, never the Mock
\* stand-in, also once a failed import has left the Mock in sys.modules.
C9_NoStubInRegistry ==
    \A i \in 1..Len(packages) :
        isinstance_ModuleType(packages[i][2]) /\ ~isinstance_Mock(packages[i][2])

\* an add processed a name whose import now returns the Mock without failing
C9_Witness ==
    /\ IsAddOfList
    /\ lastCall.arg.list = <<StrElem("ghost"), StrElem("numpy")>>
    /\ sys_modules["ghost"] = Mock
    /\ log = << >>
    /\ HasKey(packages, "numpy")

\* C10: an add call that raises TypeError on element k of its list leaves
\* the registry updated with exactly the elements before k and has processed
\* nothing after k; an argument that is no list raises with the registry
\* unchanged.
C10_AddIsNotAllOrNothing ==
    [][lastCall'.op = "add_packages" =>
        /\ (lastCall'.arg.kind # "list") => (raised' = "TypeError" /\ packages' = packages)
        /\ (lastCall'.arg.kind = "list" /\ raised' = "TypeError") =>
              \E k \in 1..Len(lastCall'.arg.list) :
                  LET before == SubSeq(lastCall'.arg.list, 1, k - 1)
                      upTo == add_loop(packages, sys_modules, << >>, before)
                  IN  /\ WrongType(lastCall'.arg.list[k])
                      /\ \A j \in 1..(k - 1) : ~WrongType(lastCall'.arg.list[j])
                      /\ upTo.raised = "none"
                      /\ packages' = upTo.packages
                      /\ keys(packages') = NoteFirstSeen(keys(packages), before)
                      /\ sys_modules' = upTo.sys_modules
                      /\ log' = upTo.log
    ]_vars

\* the element before 42 was processed (its warning is in the log) and the
\* call raised
C10_Witness ==
    /\ IsAddOfList
    /\ lastCall.arg.list = <<StrElem("ghost"), IntElem>>
    /\ raised = "TypeError"
    /\ log = <<ImportWarning("ghost")>>

====
